---- MODULE Spec2Model ----
(***************************************************************************)
(* A model of notebooks/app.py: the loader load_and_clean_data, the four   *)
(* query functions search_name / search_id / search_phone /                *)
(* search_property, and the Streamlit script main that drives them.        *)
(*                                                                         *)
(* Representation.                                                         *)
(*  - A CSV file is a sequence of rows; a row is a function from the       *)
(*    file's header names to text.  Text is a TLA+ string, except the      *)
(*    UnitNumber column, whose text is a sequence of characters because    *)
(*    the code takes suffixes of it.                                       *)
(*  - A DataFrame is a sequence of rows (row order = index order); a row   *)
(*    is a function from column names to cells.  A cell of an object or    *)
(*    numeric column is [kind, s, n]: kind "str" (s is the string), "num"  *)
(*    (n is the number) or "nan" (pandas' missing value).  A unit_number   *)
(*    cell is [kind, s, neg, n]: "str" (s is the character sequence),      *)
(*    "int" or "float" (the whole number n, negative when neg) or "nan".   *)
(*    A reg_date cell is a timestamp [nat, day, sec] (nat = TRUE is        *)
(*    pandas' NaT).                                                        *)
(*  - Sizes are decimal numbers with two places, held as integer           *)
(*    hundredths (100.0 is 10000, 1076.39 is 107639).                      *)
(***************************************************************************)
EXTENDS Integers, Sequences, FiniteSets, TLC

VARIABLES
    source,            \* the file at data/cleaned_data/...csv: [exists, rows]
    infer_string,      \* TRUE: the installed pandas keeps NaN through astype(str) (pandas >= 3)
    cache,             \* st.cache_data entry of load_and_clean_data: [set, value]
    df,                \* main's df: [none, rows]
    pc,                \* position of the current script run
    results,           \* main's results (a DataFrame), or the last direct call's return value
    search_performed,  \* main's flag
    shown,             \* status elements rendered in this run
    call,              \* the query-function invocation made in this run (op = "none": none)
    outcome            \* "none", "ok" (the call returned) or "error" (it raised)

vars == <<source, infer_string, cache, df, pc, results, search_performed,
          shown, call, outcome>>

(***************************************************************************)
(* Bounds                                                                  *)
(***************************************************************************)
MaxRows == 2

(***************************************************************************)
(* Cells                                                                   *)
(***************************************************************************)
NaN == [kind |-> "nan", s |-> "", n |-> 0]
Str(x) == [kind |-> "str", s |-> x, n |-> 0]
Num(x) == [kind |-> "num", s |-> "", n |-> x]

UNaN == [kind |-> "nan", s |-> <<>>, neg |-> FALSE, n |-> 0]
UStr(x) == [kind |-> "str", s |-> x, neg |-> FALSE, n |-> 0]
UInt(sign, x) == [kind |-> "int", s |-> <<>>, neg |-> sign, n |-> x]
UFloat(sign, x) == [kind |-> "float", s |-> <<>>, neg |-> sign, n |-> x]

NaT == [nat |-> TRUE, day |-> 0, sec |-> 0]
Timestamp(d, t) == [nat |-> FALSE, day |-> d, sec |-> t]

None == [none |-> TRUE, rows |-> <<>>]
DataFrame(rs) == [none |-> FALSE, rows |-> rs]

(***************************************************************************)
(* pd.read_csv (app.py line 18), on the texts that occur in the modelled   *)
(* files.  An empty field is a missing value.  A column all of whose       *)
(* non-empty fields are numerals is a numeric column; any other column is  *)
(* an object column whose cells are the field texts.  Every column is      *)
(* read this way.  UnitNumber texts are written with the characters A, B,  *)
(* -, 0..9; among these the numerals are the digit strings with an         *)
(* optional leading minus sign.  Such a column is int64 when no field is   *)
(* empty, and int64 cast to float64 when one is.                           *)
(***************************************************************************)
NumericTexts == {"0", "100", "500", "55.5", "999", "12345"}

NumOf(t) ==
    CASE t = "0" -> 0
      [] t = "100" -> 10000
      [] t = "500" -> 50000
      [] t = "55.5" -> 5550
      [] t = "999" -> 99900
      [] t = "12345" -> 12345
      [] OTHER -> 0

UnitColumn == "UnitNumber"

Digits == <<"0", "1", "2", "3", "4", "5", "6", "7", "8", "9">>

IsDigit(ch) == \E k \in 1..Len(Digits) : Digits[k] = ch

DigitValue(ch) == (CHOOSE k \in 1..Len(Digits) : Digits[k] = ch) - 1

IsDigitString(t) == Len(t) > 0 /\ \A k \in 1..Len(t) : IsDigit(t[k])

IsNumeral(t) ==
    \/ IsDigitString(t)
    \/ Len(t) > 1 /\ t[1] = "-" /\ IsDigitString(Tail(t))

RECURSIVE DigitsValue(_)
DigitsValue(t) ==
    IF t = <<>> THEN 0
    ELSE 10 * DigitsValue(SubSeq(t, 1, Len(t) - 1)) + DigitValue(t[Len(t)])

IsMissing(h, t) == IF h = UnitColumn THEN t = <<>> ELSE t = ""

HasMissing(rows, h) == \E i \in 1..Len(rows) : IsMissing(h, rows[i][h])

IsNumericColumn(rows, h) ==
    \A i \in 1..Len(rows) :
        \/ IsMissing(h, rows[i][h])
        \/ IF h = UnitColumn THEN IsNumeral(rows[i][h]) ELSE rows[i][h] \in NumericTexts

\* The numerals are parsed as int64, where -0 is 0; a column with a missing
\* field is then cast to float64, so its zero is 0.0 whatever the text's sign.
ReadUnit(rows, t) ==
    LET minus == t[1] = "-"
        value == DigitsValue(IF minus THEN Tail(t) ELSE t)
        sign == minus /\ value # 0
    IN IF HasMissing(rows, UnitColumn)
       THEN UFloat(sign, value)
       ELSE UInt(sign, value)

ReadCell(rows, h, t) ==
    IF IsMissing(h, t) THEN (IF h = UnitColumn THEN UNaN ELSE NaN)
    ELSE IF h = UnitColumn
         THEN IF IsNumericColumn(rows, h) THEN ReadUnit(rows, t) ELSE UStr(t)
         ELSE IF IsNumericColumn(rows, h) THEN Num(NumOf(t)) ELSE Str(t)

read_csv(rows) ==
    [i \in 1..Len(rows) |-> [h \in DOMAIN rows[i] |-> ReadCell(rows, h, rows[i][h])]]

(***************************************************************************)
(* df.rename(columns=rename_map) (app.py lines 23-46)                      *)
(***************************************************************************)
rename_map ==
    [h \in {"Regis", "ProcedureValue", "Master Project", "Master Project Land",
            "Project", "Project Lnd", "Building No", "BuildingNameEn", "Size",
            "UnitNumber", "DmSubNo", "PropertyTypeEn", "LandNumber",
            "ProcedurePartyTypeNameEn", "NameEn", "Mobile", "ProcedureNameEn",
            "CountryNameEn", "IdNumber", "UaeIdNumber", "BirthDate"} |->
        CASE h = "Regis" -> "reg_date"
          [] h = "ProcedureValue" -> "procedure_value"
          [] h = "Master Project" -> "master_project"
          [] h = "Master Project Land" -> "master_project_land"
          [] h = "Project" -> "project"
          [] h = "Project Lnd" -> "project_land"
          [] h = "Building No" -> "building_no"
          [] h = "BuildingNameEn" -> "building_name_en"
          [] h = "Size" -> "size_sqmt"
          [] h = "UnitNumber" -> "unit_number"
          [] h = "DmSubNo" -> "dm_sub_no"
          [] h = "PropertyTypeEn" -> "property_type_en"
          [] h = "LandNumber" -> "land_number"
          [] h = "ProcedurePartyTypeNameEn" -> "procedure_type"
          [] h = "NameEn" -> "name_en"
          [] h = "Mobile" -> "mobile"
          [] h = "ProcedureNameEn" -> "procedure_name"
          [] h = "CountryNameEn" -> "country"
          [] h = "IdNumber" -> "id_number"
          [] h = "UaeIdNumber" -> "uae_id_number"
          [] h = "BirthDate" -> "birth_date"]

RenameCol(h) == IF h \in DOMAIN rename_map THEN rename_map[h] ELSE h

RenameRow(r) ==
    [c \in {RenameCol(h) : h \in DOMAIN r} |->
        r[CHOOSE h \in DOMAIN r : RenameCol(h) = c]]

rename(rows) == [i \in 1..Len(rows) |-> RenameRow(rows[i])]

(***************************************************************************)
(* pd.to_datetime (app.py lines 56 and 93) on the date texts of the model. *)
(* A text that is no date makes the call raise.                            *)
(***************************************************************************)
DateTexts == {"2020-01-15", "2020-01-15 00:00:00", "2020-01-15 10:30:00", "2021-03-02"}

ParseDateText(t) ==
    CASE t = "2020-01-15" -> Timestamp(20200115, 0)
      [] t = "2020-01-15 00:00:00" -> Timestamp(20200115, 0)
      [] t = "2020-01-15 10:30:00" -> Timestamp(20200115, 37800)
      [] t = "2021-03-02" -> Timestamp(20210302, 0)
      [] OTHER -> NaT

\* The reg_date column after line 18 holds text or NaN.
DateCellOk(c) == c.kind = "nan" \/ (c.kind = "str" /\ c.s \in DateTexts)

DateCell(c) == IF c.kind = "str" THEN ParseDateText(c.s) ELSE NaT

(***************************************************************************)
(* round(x * 10.76391, 2) (app.py line 59), x in hundredths.  The code     *)
(* multiplies IEEE doubles and round() rounds the double it gets to the    *)
(* nearest hundredth.  For sizes up to 1,000,000.00 the double lies on the *)
(* same side of every rounding boundary as the decimal product, except     *)
(* where the decimal product is itself a boundary (x = 500.00 + 1000.00 k):*)
(* there the double falls just below or just above it, and TieRoundsUp     *)
(* lists the k for which it falls above.  NaN stays NaN.  The product is   *)
(* taken in parts to keep the intermediate values small.                   *)
(***************************************************************************)
FactorFraction == 76391
FactorScale == 100000

\* x * 10.76391 in hundredths: [q, r] with value q + r / FactorScale
Product(x) ==
    LET a == x \div FactorScale
        b == x % FactorScale
        c == b \div 100
        d == b % 100
        r == (((c * FactorFraction) % 1000) * 100) + ((d * FactorFraction) % FactorScale)
    IN [q |-> (10 * x) + (a * FactorFraction) + ((c * FactorFraction) \div 1000)
                + ((d * FactorFraction) \div FactorScale) + (r \div FactorScale),
        r |-> r % FactorScale]

TieRoundsUp ==
    {
      12, 13, 30, 55, 62, 98, 109, 112, 123, 203, 206, 209,
      212, 231, 234, 259, 262, 394, 400, 406, 412, 419, 425, 431,
      450, 456, 462, 475, 481, 506, 512, 531, 562, 788, 789, 800,
      801, 812, 813, 825, 826, 838, 850, 851, 862, 863, 875, 876,
      888, 900, 912, 913, 925, 938, 950, 962, 963, 975 }

sqft_of(x) ==
    LET p == Product(x)
    IN IF 2 * p.r > FactorScale THEN p.q + 1
       ELSE IF 2 * p.r < FactorScale THEN p.q
       ELSE IF (x \div FactorScale) \in TieRoundsUp THEN p.q + 1 ELSE p.q

\* The lambda of line 59 applied to one size_sqmt cell.
sqft_cell(c) == IF c.kind = "num" THEN Num(sqft_of(c.n)) ELSE NaN

\* A str cell in size_sqmt makes x * 10.76391 raise TypeError.
SizeCellOk(c) == c.kind # "str"

\* Variant: a size_sqft column the file already has is kept.
WithSqftTrustingFile(r) ==
    IF "size_sqft" \in DOMAIN r
    THEN r
    ELSE [c \in DOMAIN r \cup {"size_sqft"} |->
             IF c = "size_sqft" THEN sqft_cell(r.size_sqmt) ELSE r[c]]

WithSqft(r) ==
    [c \in DOMAIN r \cup {"size_sqft"} |->
        IF c = "size_sqft" THEN sqft_cell(r.size_sqmt) ELSE r[c]]

WithDate(r) == [r EXCEPT !.reg_date = DateCell(r.reg_date)]

(***************************************************************************)
(* load_and_clean_data (app.py lines 12-61): [status, df].                 *)
(* "missing": FileNotFoundError caught, None returned (lines 19-20);       *)
(* "raised": an exception left the function (line 56 or 59);               *)
(* "ok": the canonical table is returned.                                  *)
(***************************************************************************)
load_and_clean_data(src) ==
    IF ~src.exists THEN [status |-> "missing", df |-> None]
    ELSE LET renamed == rename(read_csv(src.rows))
         IN IF \E i \in 1..Len(renamed) : ~DateCellOk(renamed[i].reg_date)
            THEN [status |-> "raised", df |-> None]
            ELSE IF \E i \in 1..Len(renamed) : ~SizeCellOk(renamed[i].size_sqmt)
            THEN [status |-> "raised", df |-> None]
            ELSE [status |-> "ok",
                  df |-> DataFrame([i \in 1..Len(renamed) |->
                                       WithSqft(WithDate(renamed[i]))])]

(***************************************************************************)
(* Arguments of the query functions.  An optional argument is Python's     *)
(* None or a value; `if x:` (lines 85, 88, 91, 96) tests Python truth: a   *)
(* number is true unless it is 0, a string unless it is empty, a date      *)
(* object always, None never.                                              *)
(***************************************************************************)
NoNum == [some |-> FALSE, v |-> 0]
SomeNum(x) == [some |-> TRUE, v |-> x]

NoUnit == [some |-> FALSE, v |-> <<>>]
SomeUnit(u) == [some |-> TRUE, v |-> u]

NoDate == [kind |-> "none", day |-> 0, text |-> ""]
DateObj(d) == [kind |-> "date", day |-> d, text |-> ""]
DateText(t) == [kind |-> "text", day |-> 0, text |-> t]

TruthyNum(a) == a.some /\ a.v # 0
TruthyUnit(a) == a.some /\ a.v # <<>>
TruthyDate(a) == a.kind = "date" \/ (a.kind = "text" /\ a.text # "")

(***************************************************************************)
(* Element-wise comparisons of a column with a scalar.  pandas compares    *)
(* values, so a missing cell equals nothing and a numeric cell never       *)
(* equals a str key.                                                       *)
(***************************************************************************)
EqStr(c, key) == c.kind = "str" /\ c.s = key
EqNum(c, x) == c.kind = "num" /\ c.n = x
EqTimestamp(c, ts) == ~c.nat /\ ~ts.nat /\ c = ts

(***************************************************************************)
(* search_name, search_id, search_phone (app.py lines 64-74)               *)
(***************************************************************************)
search_name(name, rows) == SelectSeq(rows, LAMBDA r : EqStr(r.name_en, name))

IdMatch(r, id) == EqStr(r.id_number, id) \/ EqStr(r.uae_id_number, id)

search_id(id, rows) == SelectSeq(rows, LAMBDA r : IdMatch(r, id))

search_phone(mobile, rows) == SelectSeq(rows, LAMBDA r : EqStr(r.mobile, mobile))

(***************************************************************************)
(* search_property (app.py lines 76-100): [ok, rows]; ok = FALSE when the  *)
(* call raised.                                                            *)
(***************************************************************************)
\* Variant: building_no joins the identity columns.
IdentityMatchSix(r, property_name) ==
    \/ EqStr(r.master_project, property_name)
    \/ EqStr(r.master_project_land, property_name)
    \/ EqStr(r.project, property_name)
    \/ EqStr(r.project_land, property_name)
    \/ EqStr(r.building_no, property_name)
    \/ EqStr(r.building_name_en, property_name)

\* lines 77-83
IdentityMatch(r, property_name) ==
    \/ EqStr(r.master_project, property_name)
    \/ EqStr(r.master_project_land, property_name)
    \/ EqStr(r.project, property_name)
    \/ EqStr(r.project_land, property_name)
    \/ EqStr(r.building_name_en, property_name)

\* lines 85-86
SqmtStage(rows, size_sqmt) ==
    IF TruthyNum(size_sqmt)
    THEN SelectSeq(rows, LAMBDA r : EqNum(r.size_sqmt, size_sqmt.v))
    ELSE rows

\* lines 88-89
SqftStage(rows, size_sqft) ==
    IF TruthyNum(size_sqft)
    THEN SelectSeq(rows, LAMBDA r : EqNum(r.size_sqft, size_sqft.v))
    ELSE rows

\* line 93: pd.to_datetime of the argument: [ok, ts]
to_datetime(a) ==
    IF a.kind = "date" THEN [ok |-> TRUE, ts |-> Timestamp(a.day, 0)]
    ELSE IF a.text = "" THEN [ok |-> TRUE, ts |-> NaT]
    ELSE IF a.text \in DateTexts THEN [ok |-> TRUE, ts |-> ParseDateText(a.text)]
    ELSE [ok |-> FALSE, ts |-> NaT]

\* lines 91-94
DateStage(rows, transaction_date) ==
    IF TruthyDate(transaction_date)
    THEN LET p == to_datetime(transaction_date)
         IN IF p.ok
            THEN [ok |-> TRUE, rows |-> SelectSeq(rows, LAMBDA r : EqTimestamp(r.reg_date, p.ts))]
            ELSE [ok |-> FALSE, rows |-> <<>>]
    ELSE [ok |-> TRUE, rows |-> rows]

\* Series.astype(str) on the unit_number column: before pandas 3 a missing
\* value becomes the text "nan"; from pandas 3 on it stays missing.
NanText == <<"n", "a", "n">>

RECURSIVE NatText(_)
NatText(n) ==
    IF n < 10 THEN <<Digits[n + 1]>>
    ELSE NatText(n \div 10) \o <<Digits[(n % 10) + 1]>>

SignText(c) == IF c.neg THEN <<"-">> ELSE <<>>

astype_str(c) ==
    CASE c.kind = "nan" -> IF infer_string THEN c ELSE UStr(NanText)
      [] c.kind = "int" -> UStr(SignText(c) \o NatText(c.n))
      [] c.kind = "float" -> UStr(SignText(c) \o NatText(c.n) \o <<".", "0">>)
      [] OTHER -> c

\* Variant: the text occurs anywhere in the unit number (str.contains).
Contains(s, u) ==
    \E k \in 0..(Len(s) - Len(u)) : SubSeq(s, k + 1, k + Len(u)) = u

EndsWith(s, u) ==
    /\ Len(u) <= Len(s)
    /\ SubSeq(s, Len(s) - Len(u) + 1, Len(s)) = u

\* .str.endswith(u, na=False)
str_endswith(c, u) == c.kind = "str" /\ EndsWith(c.s, u)

\* lines 96-98
UnitStage(rows, unit_number) ==
    IF TruthyUnit(unit_number)
    THEN SelectSeq(rows, LAMBDA r : str_endswith(astype_str(r.unit_number), unit_number.v))
    ELSE rows

search_property(property_name, rows, size_sqmt, size_sqft, transaction_date, unit_number) ==
    LET identity == SelectSeq(rows, LAMBDA r : IdentityMatch(r, property_name))
        sized == SqftStage(SqmtStage(identity, size_sqmt), size_sqft)
        dated == DateStage(sized, transaction_date)
    IN IF dated.ok
       THEN [ok |-> TRUE, rows |-> UnitStage(dated.rows, unit_number)]
       ELSE [ok |-> FALSE, rows |-> <<>>]

\* Variant: the selection is written back into the table.
df_filtered_in_place(d, returned) == DataFrame(returned)

\* The query functions index their argument and return the selection
\* (lines 65, 69, 73, 77-98); none assigns into df.
df_after_search(d, returned) == d

(***************************************************************************)
(* The files the model loads.  Every file has the thirteen headers the     *)
(* code reads; the second family also has a size_sqft column of its own.   *)
(* Dates in a file are written in one format (year-month-day), and         *)
(* "notadate" is a field that is no date.                                  *)
(***************************************************************************)
FileRow(reg, mp, mpl, pr, pl, bno, bname, size, unit, name, mob, id, uae) ==
    [h \in {"Regis", "Master Project", "Master Project Land", "Project",
            "Project Lnd", "Building No", "BuildingNameEn", "Size",
            "UnitNumber", "NameEn", "Mobile", "IdNumber", "UaeIdNumber"} |->
        CASE h = "Regis" -> reg
          [] h = "Master Project" -> mp
          [] h = "Master Project Land" -> mpl
          [] h = "Project" -> pr
          [] h = "Project Lnd" -> pl
          [] h = "Building No" -> bno
          [] h = "BuildingNameEn" -> bname
          [] h = "Size" -> size
          [] h = "UnitNumber" -> unit
          [] h = "NameEn" -> name
          [] h = "Mobile" -> mob
          [] h = "IdNumber" -> id
          [] h = "UaeIdNumber" -> uae]

Unit_A_3_0601 == <<"A", "-", "3", "-", "0", "6", "0", "1">>
Unit_B_12_0610 == <<"B", "-", "1", "2", "-", "0", "6", "1", "0">>

GoodRows ==
    { FileRow("2020-01-15", "P1", "", "", "", "", "", "100", Unit_A_3_0601,
              "JOHN SMITH", "971-50-1112233", "X", "Y"),
      FileRow("2020-01-15", "", "P1", "", "", "", "B9", "500", Unit_B_12_0610,
              "JOHN SMITH", "971-50-1112233", "12345", ""),
      FileRow("2021-03-02", "", "", "P1", "", "", "", "55.5", <<>>,
              "JANE ROE", "", "", "Y"),
      FileRow("", "", "", "", "Q7", "P1", "", "0", <<"0", "6", "0", "1">>,
              "", "971-50-1112233", "Y", "X"),
      FileRow("2020-01-15", "Q7", "", "", "", "", "P1", "", <<>>,
              "john smith", "", "", "12345") }

BadDateRow ==
    FileRow("notadate", "P1", "", "", "", "", "", "100", Unit_A_3_0601,
            "JOHN SMITH", "", "X", "Y")

FileRows == GoodRows \cup {BadDateRow}

SeqsUpTo(S, n) == UNION {[1..k -> S] : k \in 0..n}

OwnSqft(r) == [h \in DOMAIN r \cup {"size_sqft"} |-> IF h = "size_sqft" THEN "999" ELSE r[h]]

PlainFiles == SeqsUpTo(FileRows, MaxRows)

Files == PlainFiles \cup {[i \in 1..Len(f) |-> OwnSqft(f[i])] : f \in PlainFiles}

File(f) == [exists |-> TRUE, rows |-> f]

Sources == {[exists |-> FALSE, rows |-> <<>>]} \cup {File(f) : f \in Files}

(***************************************************************************)
(* Inputs                                                                  *)
(***************************************************************************)
NameKeys == {"JOHN SMITH", "john smith"}
IdKeys == {"X", "Y", "Z", "12345"}
PhoneKeys == {"971-50-1112233", "+971501112233"}
PropertyKeys == {"P1", "Q7"}
SqmtValues == {0, 10000}
SqftValues == {0, 107639}
Days == {20200115}
UnitTexts ==
    { <<"0", "6">>, <<"0", "6", "0", "1">>, <<"6", "0", "1", "A">>,
      <<"1", "0">>, <<"0", "6", "1", "0">>, NanText }

WidgetUnitTexts == {<<>>, <<"0", "6", "0", "1">>, NanText}
DateArgs == {NoDate, DateText("2020-01-15 00:00:00"), DateText("notadate"), DateText("")}
               \cup {DateObj(d) : d \in Days}

NoCall ==
    [op |-> "none", key |-> "", size_sqmt |-> NoNum, size_sqft |-> NoNum,
     transaction_date |-> NoDate, unit_number |-> NoUnit]
KeyCall(o, k) == [NoCall EXCEPT !.op = o, !.key = k]
PropertyCall(k, a, b, d, u) ==
    [op |-> "property", key |-> k, size_sqmt |-> a, size_sqft |-> b,
     transaction_date |-> d, unit_number |-> u]

(***************************************************************************)
(* main (app.py lines 103-215), one script run at a time.                  *)
(***************************************************************************)
Init ==
    /\ source \in Sources
    /\ infer_string \in BOOLEAN
    /\ cache = [set |-> FALSE, value |-> None]
    /\ df = None
    /\ pc = "start"
    /\ results = <<>>
    /\ search_performed = FALSE
    /\ shown = {}
    /\ call = NoCall
    /\ outcome = "none"

\* Variant: the run goes on whatever the load returned.
after_load_unchecked(d) == "widgets"

\* line 109: the run goes on to the widgets only with a table
after_load(d) == IF d.none THEN "done" ELSE "widgets"

\* lines 106-111, with st.cache_data (line 11): a returned value is cached,
\* None included; an exception is not cached and ends the run.
Load ==
    /\ pc = "start"
    /\ LET r == IF cache.set THEN [status |-> "cached", df |-> cache.value]
                ELSE load_and_clean_data(source)
       IN IF r.status = "raised"
          THEN /\ pc' = "crashed"
               /\ shown' = {"exception"}
               /\ UNCHANGED <<cache, df>>
          ELSE /\ cache' = [set |-> TRUE, value |-> r.df]
               /\ df' = r.df
               /\ pc' = after_load(r.df)
               /\ shown' = IF r.df.none THEN {"load_error"} ELSE {}
    /\ UNCHANGED <<source, infer_string, results, search_performed, call, outcome>>

\* lines 120-151: one of the three key searches, button pressed or not
KeySearch(op, key, pressed) ==
    /\ pc = "widgets"
    /\ search_performed' = pressed
    /\ IF pressed /\ key # ""
       THEN /\ results' = (CASE op = "name" -> search_name(key, df.rows)
                             [] op = "id" -> search_id(key, df.rows)
                             [] op = "phone" -> search_phone(key, df.rows))
            /\ call' = KeyCall(op, key)
            /\ outcome' = "ok"
            /\ df' = df_after_search(df, results')
            /\ shown' = shown
       ELSE /\ results' = <<>>
            /\ shown' = IF pressed THEN shown \cup {"warning"} ELSE shown
            /\ UNCHANGED <<call, outcome, df>>
    /\ pc' = "display"
    /\ UNCHANGED <<source, infer_string, cache>>

NameSearch == \E key \in NameKeys \cup {""}, pressed \in BOOLEAN : KeySearch("name", key, pressed)
IdSearch == \E key \in IdKeys \cup {""}, pressed \in BOOLEAN : KeySearch("id", key, pressed)
PhoneSearch == \E key \in PhoneKeys \cup {""}, pressed \in BOOLEAN : KeySearch("phone", key, pressed)

\* lines 153-193: st.number_input yields a number (its default 0.0 while
\* disabled), st.date_input a date, st.text_input a string
PropertySearch ==
    \E prop_name \in PropertyKeys \cup {""}, pressed \in BOOLEAN,
       enable_sqmt \in BOOLEAN, enable_sqft \in BOOLEAN, enable_date \in BOOLEAN,
       trans_date \in Days, unit_no \in WidgetUnitTexts :
    \E sqmt \in (IF enable_sqmt THEN SqmtValues ELSE {0}),
       sqft \in (IF enable_sqft THEN SqftValues ELSE {0}) :
    /\ pc = "widgets"
    /\ search_performed' = pressed
    /\ IF pressed /\ prop_name # ""
       THEN LET _sqmt == IF enable_sqmt THEN SomeNum(sqmt) ELSE NoNum
                _sqft == IF enable_sqft THEN SomeNum(sqft) ELSE NoNum
                _date == IF enable_date THEN DateObj(trans_date) ELSE NoDate
                _unit == IF unit_no # <<>> THEN SomeUnit(unit_no) ELSE NoUnit
                r == search_property(prop_name, df.rows, _sqmt, _sqft, _date, _unit)
            IN /\ call' = PropertyCall(prop_name, _sqmt, _sqft, _date, _unit)
               /\ IF r.ok
                  THEN /\ results' = r.rows
                       /\ outcome' = "ok"
                       /\ pc' = "display"
                       /\ shown' = shown
                  ELSE /\ results' = <<>>
                       /\ outcome' = "error"
                       /\ pc' = "crashed"
                       /\ shown' = shown \cup {"exception"}
               /\ df' = df_after_search(df, r.rows)
       ELSE /\ results' = <<>>
            /\ shown' = IF pressed THEN shown \cup {"warning"} ELSE shown
            /\ pc' = "display"
            /\ UNCHANGED <<call, outcome, df>>
    /\ UNCHANGED <<source, infer_string, cache>>

\* lines 195-215
Display ==
    /\ pc = "display"
    /\ shown' = IF search_performed
                THEN IF Len(results) # 0
                     THEN shown \cup {"success"}
                     ELSE shown \cup {"no_match"}
                ELSE shown
    /\ pc' = "done"
    /\ UNCHANGED <<source, infer_string, cache, df, results, search_performed, call, outcome>>

\* Streamlit runs the script again on the next interaction; only the cache survives.
Rerun ==
    /\ pc \in {"done", "crashed"}
    /\ pc' = "start"
    /\ df' = None
    /\ results' = <<>>
    /\ search_performed' = FALSE
    /\ shown' = {}
    /\ call' = NoCall
    /\ outcome' = "none"
    /\ UNCHANGED <<source, infer_string, cache>>

Next == Load \/ NameSearch \/ IdSearch \/ PhoneSearch \/ PropertySearch \/ Display \/ Rerun

Spec == Init /\ [][Next]_vars

(***************************************************************************)
(* The query functions called directly on a loaded table (the call surface *)
(* search_name / search_id / search_phone / search_property of lines       *)
(* 64-100), with any arguments a caller can pass.  The table is one that   *)
(* load_and_clean_data returned; a file's own size_sqft column is          *)
(* overwritten by the load, so the files without one yield all of them.    *)
(***************************************************************************)
QueryInit ==
    /\ source \in {File(f) : f \in SeqsUpTo(GoodRows, MaxRows)}
    /\ infer_string \in BOOLEAN
    /\ cache = [set |-> TRUE, value |-> load_and_clean_data(source).df]
    /\ df = load_and_clean_data(source).df
    /\ pc = "loaded"
    /\ results = <<>>
    /\ search_performed = FALSE
    /\ shown = {}
    /\ call = NoCall
    /\ outcome = "none"

Returned(c, rows) ==
    /\ pc = "loaded"
    /\ pc' = "returned"
    /\ call' = c
    /\ results' = rows
    /\ outcome' = "ok"
    /\ df' = df_after_search(df, rows)
    /\ UNCHANGED <<source, infer_string, cache, search_performed, shown>>

CallSearchName == \E key \in NameKeys : Returned(KeyCall("name", key), search_name(key, df.rows))

CallSearchId == \E key \in IdKeys : Returned(KeyCall("id", key), search_id(key, df.rows))

CallSearchPhone == \E key \in PhoneKeys : Returned(KeyCall("phone", key), search_phone(key, df.rows))

CallSearchProperty ==
    \E key \in PropertyKeys,
       a \in {NoNum} \cup {SomeNum(v) : v \in SqmtValues},
       b \in {NoNum} \cup {SomeNum(v) : v \in SqftValues},
       d \in DateArgs,
       u \in {NoUnit} \cup {SomeUnit(t) : t \in UnitTexts \cup {<<>>}} :
    /\ pc = "loaded"
    /\ pc' = "returned"
    /\ LET r == search_property(key, df.rows, a, b, d, u)
       IN /\ call' = PropertyCall(key, a, b, d, u)
          /\ results' = r.rows
          /\ outcome' = IF r.ok THEN "ok" ELSE "error"
          /\ df' = df_after_search(df, r.rows)
    /\ UNCHANGED <<source, infer_string, cache, search_performed, shown>>

\* The caller is done with the returned value and is ready for the next call.
NextCall ==
    /\ pc = "returned"
    /\ pc' = "loaded"
    /\ results' = <<>>
    /\ call' = NoCall
    /\ outcome' = "none"
    /\ UNCHANGED <<source, infer_string, cache, df, search_performed, shown>>

QueryNext == CallSearchName \/ CallSearchId \/ CallSearchPhone \/ CallSearchProperty \/ NextCall

SpecQuery == QueryInit /\ [][QueryNext]_vars

(***************************************************************************)
(* Properties                                                              *)
(***************************************************************************)
InResults(r) == \E j \in 1..Len(results) : results[j] = r

PropertyReturned == call.op = "property" /\ outcome = "ok"

OnlyUnitFilter ==
    /\ call.size_sqmt = NoNum
    /\ call.size_sqft = NoNum
    /\ call.transaction_date = NoDate
    /\ call.unit_number.some

\* C1: after search_property returns, a supplied size_sqmt value v (0
\* included) leaves only rows with size_sqmt = v, and a supplied size_sqft
\* value only rows with that size_sqft.
C1_SuppliedSizeFilterApplied ==
    PropertyReturned =>
        /\ call.size_sqmt.some =>
              \A j \in 1..Len(results) : EqNum(results[j].size_sqmt, call.size_sqmt.v)
        /\ call.size_sqft.some =>
              \A j \in 1..Len(results) : EqNum(results[j].size_sqft, call.size_sqft.v)

\* C2: with the unit_number filter enabled with text u, the result is exactly
\* the rows left by the earlier stages whose unit_number is present and ends
\* with u; a row without a unit_number is never in it.
C2_UnitFilterExcludesAbsent ==
    (PropertyReturned /\ TruthyUnit(call.unit_number)) =>
        LET identity == SelectSeq(df.rows, LAMBDA r : IdentityMatch(r, call.key))
            earlier == DateStage(SqftStage(SqmtStage(identity, call.size_sqmt),
                                           call.size_sqft),
                                 call.transaction_date).rows
        IN /\ results = SelectSeq(earlier, LAMBDA r : /\ r.unit_number.kind # "nan"
                                                   /\ EndsWith(astype_str(r.unit_number).s,
                                                               call.unit_number.v))
           /\ \A j \in 1..Len(results) : results[j].unit_number.kind # "nan"

\* C3 as documented: a row with unit_number "A-3-0601" that passes the
\* identity stage is returned for the unit filters "06" and "0601" and not
\* for "601A"; one with "B-12-0610" is not returned for "10" and is returned
\* for "0610".
C3_DocumentedUnitExamples ==
    (PropertyReturned /\ OnlyUnitFilter) =>
        \A i \in 1..Len(df.rows) :
            LET r == df.rows[i]
                u == call.unit_number.v
            IN IdentityMatch(r, call.key) =>
                /\ r.unit_number = UStr(Unit_A_3_0601) =>
                      /\ u = <<"0", "6">> => InResults(r)
                      /\ u = <<"0", "6", "0", "1">> => InResults(r)
                      /\ u = <<"6", "0", "1", "A">> => ~InResults(r)
                /\ r.unit_number = UStr(Unit_B_12_0610) =>
                      /\ u = <<"1", "0">> => ~InResults(r)
                      /\ u = <<"0", "6", "1", "0">> => InResults(r)

\* C3 amended: a row with unit_number "A-3-0601" that passes the identity
\* stage is returned for the unit filter "0601" and not for "06" nor "601A";
\* one with "B-12-0610" is returned for "10" and for "0610".
C3_SuffixUnitExamples ==
    (PropertyReturned /\ OnlyUnitFilter) =>
        \A i \in 1..Len(df.rows) :
            LET r == df.rows[i]
                u == call.unit_number.v
            IN IdentityMatch(r, call.key) =>
                /\ r.unit_number = UStr(Unit_A_3_0601) =>
                      /\ u = <<"0", "6">> => ~InResults(r)
                      /\ u = <<"0", "6", "0", "1">> => InResults(r)
                      /\ u = <<"6", "0", "1", "A">> => ~InResults(r)
                /\ r.unit_number = UStr(Unit_B_12_0610) =>
                      /\ u = <<"1", "0">> => InResults(r)
                      /\ u = <<"0", "6", "1", "0">> => InResults(r)

C3_Witness ==
    /\ PropertyReturned /\ OnlyUnitFilter
    /\ call.unit_number.v = <<"0", "6">>
    /\ \E i \in 1..Len(df.rows) :
          /\ IdentityMatch(df.rows[i], call.key)
          /\ df.rows[i].unit_number = UStr(Unit_A_3_0601)
          /\ ~InResults(df.rows[i])
    /\ \E i \in 1..Len(df.rows) :
          /\ IdentityMatch(df.rows[i], call.key)
          /\ df.rows[i].unit_number = UStr(Unit_B_12_0610)

IdentityColumns ==
    {"master_project", "master_project_land", "project", "project_land", "building_name_en"}

NamedBy(r, cols, name) == \E c \in cols : r[c].kind = "str" /\ r[c].s = name

NoFilter ==
    /\ call.size_sqmt = NoNum
    /\ call.size_sqft = NoNum
    /\ call.transaction_date = NoDate
    /\ call.unit_number = NoUnit

\* C4: every row search_property returns has the name in one of the five
\* identity columns; with no refinement filter the result is exactly those
\* rows, in table order, and the call returns (an empty result included); a
\* row that has the name only in building_no is never returned.
C4_IdentityFiveColumns ==
    /\ PropertyReturned =>
          /\ \A j \in 1..Len(results) : NamedBy(results[j], IdentityColumns, call.key)
          /\ \A i \in 1..Len(df.rows) :
                (/\ NamedBy(df.rows[i], {"building_no"}, call.key)
                 /\ ~NamedBy(df.rows[i], IdentityColumns, call.key)) => ~InResults(df.rows[i])
    /\ (call.op = "property" /\ NoFilter) =>
          /\ outcome = "ok"
          /\ results = SelectSeq(df.rows, LAMBDA r : NamedBy(r, IdentityColumns, call.key))

C4_Witness ==
    /\ PropertyReturned /\ NoFilter
    /\ Len(results) > 0
    /\ \E i \in 1..Len(df.rows) :
          /\ NamedBy(df.rows[i], {"building_no"}, call.key)
          /\ ~InResults(df.rows[i])

\* C5: search_id returns exactly the rows whose id_number or uae_id_number,
\* compared as strings (the text the file holds in IdNumber / UaeIdNumber),
\* equals the key.
C5_IdComparedAsStrings ==
    (call.op = "id" /\ outcome = "ok") =>
        \A i \in 1..Len(df.rows) :
            InResults(df.rows[i]) <=>
                \/ source.rows[i]["IdNumber"] = call.key
                \/ source.rows[i]["UaeIdNumber"] = call.key

LoadFailed == load_and_clean_data(source).status # "ok"

\* C6: when the load fails (file missing, or a registration date that does
\* not parse) the run has no table and executes no search.
C6_NoSearchAfterFailedLoad ==
    LoadFailed =>
        /\ df.none
        /\ cache.value.none
        /\ call.op = "none"
        /\ outcome = "none"
        /\ pc \in {"start", "done", "crashed"}

C6_Witness ==
    /\ load_and_clean_data(source).status = "raised"
    /\ pc = "crashed"
    /\ "exception" \in shown

\* A date argument that was supplied and is no date: a text that is not the
\* text of a date, the empty text included.
NotADate(a) == a.kind = "text" /\ a.text \notin DateTexts

\* C7: a supplied transaction_date that cannot be parsed as a date makes
\* search_property raise; it never returns a result set computed with the
\* date filter skipped, whatever the other filters are.
C7_BadDateAborts ==
    (call.op = "property" /\ NotADate(call.transaction_date)) =>
        /\ outcome = "error"
        /\ results = <<>>

\* C8: after any sequence of query calls, aborted ones included, the table
\* is the one the load returned.
C8_TableUnchanged == df = load_and_clean_data(source).df

C8_Witness ==
    /\ pc = "returned"
    /\ outcome = "error"
    /\ Len(df.rows) = MaxRows
    /\ df = load_and_clean_data(source).df

\* C9: in the loaded table every row's size_sqft is size_sqmt * 10.76391
\* rounded to the nearest hundredth (missing when size_sqmt is missing),
\* also when the file has a size_sqft column of its own.
C9_SqftDerived ==
    ~df.none =>
        \A i \in 1..Len(df.rows) :
            LET r == df.rows[i]
                x == r.size_sqmt.n
                y == r.size_sqft.n
                p == Product(x)
            IN IF r.size_sqmt.kind = "num"
               THEN /\ r.size_sqft.kind = "num"
                    /\ 2 * p.r < FactorScale => y = p.q
                    /\ 2 * p.r > FactorScale => y = p.q + 1
                    /\ 2 * p.r = FactorScale => y \in {p.q, p.q + 1}
               ELSE r.size_sqft = NaN

C9_Witness ==
    /\ ~df.none
    /\ Len(source.rows) > 0
    /\ "size_sqft" \in DOMAIN source.rows[1]
    /\ source.rows[1]["Size"] = "100"
    /\ df.rows[1].size_sqft = Num(107639)

\* C10: the no-result status is shown only in a run in which a query
\* function was called and returned no rows; a press rejected for an empty
\* key shows the warning without it.
C10_NoMatchOnlyAfterSearch ==
    /\ "no_match" \in shown => (call.op # "none" /\ outcome = "ok" /\ Len(results) = 0)
    /\ "warning" \in shown => "no_match" \notin shown

====
